---- MODULE Spec2Model ----
(***************************************************************************)
(* Model of get_transaction/test.py: the cursor-paginated download of      *)
(* trading transactions (fetch_transactions), the thread-pool resolution   *)
(* of user and country names into two dictionaries (fetch_username,        *)
(* fetch_country_name, the __main__ block) and the transformation and      *)
(* export of the table (clean_and_export).                                 *)
(*                                                                         *)
(* JSON and pandas cells are records [ty, n, d, s]: ty is the kind of the  *)
(* value ("int", "str", "null", "float", "nan", "inf", "-inf"), n/d the    *)
(* number as a reduced fraction, s the text of a string.  Identifiers and  *)
(* cursors are strings, None standing for JSON null / Python None / NaN.   *)
(***************************************************************************)
EXTENDS Integers, Sequences, FiniteSets, TLC

VARIABLES
    pc,             \* position of the main thread
    error,          \* where an uncaught exception ended the run ("none" if none)
    cursor,         \* fetch_transactions: cursor
    all_items,      \* fetch_transactions: all_items
    requests,       \* cursor parameter of every page request issued, in order
    pages,          \* every page response received, in order
    df,             \* __main__: df (mutated in place by clean_and_export)
    user_cache,     \* global user_cache
    country_cache,  \* global country_cache
    user_ids,       \* __main__: user_ids
    country_ids,    \* __main__: country_ids
    submitted,      \* executor.map: number of calls of the current map submitted
    tasks,          \* the calls given to the pool (or made by the driver), in order
    lookups,        \* number of lookup requests issued per <<cache, id>>
    writers,        \* the calls that wrote each <<cache, id>> entry
    final_df,       \* clean_and_export: final_df
    csv_file,       \* warera_transactions_final.csv (rows; <<>> before the export)
    xlsx_file       \* warera_transactions_final.xlsx

vars == <<pc, error, cursor, all_items, requests, pages, df, user_cache,
          country_cache, user_ids, country_ids, submitted, tasks, lookups,
          writers, final_df, csv_file, xlsx_file>>

fetchVars == <<cursor, all_items, requests, pages>>
cacheVars == <<user_cache, country_cache, lookups, writers>>
outVars == <<final_df, csv_file, xlsx_file>>

----------------------------------------------------------------------------
(* Bounds *)

\* Largest number of page requests of one run: the server ends the
\* pagination (failing status, undecodable body or no next cursor) at the latest
\* on this page.
MaxPages == 2

\* Largest number of resolution calls the sequential driver makes.
MaxCalls == 3

----------------------------------------------------------------------------
(* Values *)

None == "None"

IntCell(n) == [ty |-> "int", n |-> n, d |-> 1, s |-> ""]
StrCell(s) == [ty |-> "str", n |-> 0, d |-> 1, s |-> s]
Null == [ty |-> "null", n |-> 0, d |-> 1, s |-> ""]
NaN == [ty |-> "nan", n |-> 0, d |-> 1, s |-> ""]
PosInf == [ty |-> "inf", n |-> 0, d |-> 1, s |-> ""]
NegInf == [ty |-> "-inf", n |-> 0, d |-> 1, s |-> ""]

Abs(x) == IF x < 0 THEN -x ELSE x

RECURSIVE Gcd(_, _)
Gcd(a, b) == IF b = 0 THEN a ELSE Gcd(b, a % b)

\* The float n/d, as a reduced fraction with a positive denominator.
Float(n, d) ==
    LET g == Gcd(Abs(n), Abs(d))
        sgn == IF d < 0 THEN -1 ELSE 1
    IN  [ty |-> "float", n |-> sgn * (n \div g), d |-> sgn * (d \div g), s |-> ""]

----------------------------------------------------------------------------
(* What the transaction endpoint can serve *)

Item(seller, buyer, sellerCountry, buyerCountry, code, quantity, money, at) ==
    [sellerId |-> seller, buyerId |-> buyer,
     sellerCountryId |-> sellerCountry, buyerCountryId |-> buyerCountry,
     itemCode |-> code, quantity |-> quantity, money |-> money,
     updatedAt |-> at, transactionType |-> "trading"]

\* updatedAt as <<year, month, day, hour, minute, second>>
T1 == <<2025, 7, 4, 9, 5, 30>>
T2 == <<2025, 12, 31, 23, 59, 59>>

Item1 == Item("A", "B", "X", "X", "bread", IntCell(4), IntCell(100), T1)
Item2 == Item("B", "A", "X", None, "steel", IntCell(0), IntCell(50), T2)
Item3 == Item(None, "A", None, "X", "grain", StrCell("abc"), IntCell(7), T1)
Item4 == Item("A", "A", "X", "X", "bread", Null, IntCell(0), T2)
Item5 == Item("B", "B", "X", "X", "steel", IntCell(0), IntCell(0), T1)
Item6 == Item("B", None, None, "X", "grain", StrCell("2"), IntCell(5), T2)

\* The item lists a page can carry.
PageChoices == {<<>>, <<Item1, Item2>>, <<Item3, Item4, Item5, Item6>>}

\* result.data.nextCursor: absent/null, empty, or a token.
NextCursors == {None, "", "c1", "c2"}

\* HTTP statuses other than 200 that a page request can end with.
FailStatuses == {204, 500}

\* A page response: its status, whether res.json() and the path
\* result.data.items can be read from its body, the items and the next cursor.
Response(status, decodable, items, nextCursor) ==
    [status |-> status, decodable |-> decodable, items |-> items,
     nextCursor |-> nextCursor]

Responses ==
    {Response(st, FALSE, <<>>, None) : st \in FailStatuses \cup {200}}
    \cup {Response(200, TRUE, it, nc) : it \in PageChoices, nc \in NextCursors}

----------------------------------------------------------------------------
(* fetch_transactions *)

\* Mutant: only None ends the pagination, an empty cursor does not.
TruthyNotNone(c) == c # None

\* Python truthiness of a cursor: None and "" are falsy.
Truthy(c) == c \notin {None, ""}

\* Mutant: the cursor is never put into the parameters.
RequestCursorDropped(c) == None

\* Lines 24-26: the cursor parameter of the request (None: no cursor key).
RequestCursor(c) == IF Truthy(c) THEN c ELSE None

\* Line 32: the status ends the loop.
StatusFails(status) == status # 200

\* Line 33-34: where the loop goes after a failing status (break).
\* Mutant: continue instead of break.
AfterFailureContinue == "fetch"

AfterFailure == "return"

\* Mutant: the new page is put in front of the items fetched so far.
ExtendInFront(acc, items) == items \o acc

\* Mutant: all_items = items instead of all_items.extend(items).
ExtendReplaces(acc, items) == items

\* Line 38: all_items.extend(items)
Extend(acc, items) == acc \o items

\* The response keeps the loop going (lines 32-42).
Continues(r) == ~StatusFails(r.status) /\ r.decodable /\ Truthy(r.nextCursor)

\* Lines 24-30: build the parameters and issue the GET of the next page.
SendRequest ==
    /\ pc = "fetch"
    /\ requests' = Append(requests, RequestCursor(cursor))
    /\ pc' = "await"
    /\ UNCHANGED <<error, cursor, all_items, pages, df, user_ids, country_ids,
                   submitted, tasks>>
    /\ UNCHANGED cacheVars
    /\ UNCHANGED outVars

\* Lines 30-43: the response arrives; status check, decoding, extend, cursor.
\* Mutant: a body that does not decode leaves the loop like a failing status.
AfterDecodeErrorBreak == "return"

\* Lines 36-37: res.json() raises inside the loop, nothing catches it, so the
\* exception leaves fetch_transactions and, at line 105, the script.
AfterDecodeError == "crashed"

ReceiveResponse ==
    /\ pc = "await"
    /\ \E r \in Responses :
        /\ Len(pages) + 1 < MaxPages \/ ~Continues(r)
        /\ pages' = Append(pages, r)
        /\ IF StatusFails(r.status)
           THEN /\ pc' = AfterFailure
                /\ UNCHANGED <<error, cursor, all_items>>
           ELSE IF ~r.decodable
           THEN /\ pc' = AfterDecodeError
                /\ error' = "fetch_transactions"
                /\ UNCHANGED <<cursor, all_items>>
           ELSE /\ all_items' = Extend(all_items, r.items)
                /\ cursor' = r.nextCursor
                /\ pc' = IF Truthy(r.nextCursor) THEN "fetch" ELSE "return"
                /\ UNCHANGED error
    /\ UNCHANGED <<requests, df, user_ids, country_ids, submitted, tasks>>
    /\ UNCHANGED cacheVars
    /\ UNCHANGED outVars

\* Line 45 and line 105: return pd.DataFrame(all_items), bound to df.
FetchReturn ==
    /\ pc = "return"
    /\ df' = all_items
    /\ pc' = "unique"
    /\ UNCHANGED <<error, user_ids, country_ids, submitted, tasks>>
    /\ UNCHANGED fetchVars
    /\ UNCHANGED cacheVars
    /\ UNCHANGED outVars

----------------------------------------------------------------------------
(* pandas helpers used by __main__ *)

\* The columns of pd.DataFrame(list of dicts): the union of the dicts' keys.
Columns(d) == UNION {DOMAIN d[i] : i \in 1..Len(d)}

Column(d, name) == [i \in 1..Len(d) |-> d[i][name]]

\* df[[a, b]].values.ravel('K'): the two-column block in memory order, that is
\* column a followed by column b.
Ravel(d, a, b) == Column(d, a) \o Column(d, b)

RECURSIVE Unique(_)
\* pd.unique: the distinct values in order of first appearance.
Unique(seq) ==
    IF seq = <<>> THEN <<>>
    ELSE LET front == Unique(SubSeq(seq, 1, Len(seq) - 1))
             last == seq[Len(seq)]
         IN  IF \E i \in 1..Len(front) : front[i] = last
             THEN front ELSE Append(front, last)

\* Mutant: the ids are dispatched without pd.unique.
UserIdsNoDedup(d) == Ravel(d, "sellerId", "buyerId")

\* Line 111
UserIds(d) == Unique(Ravel(d, "sellerId", "buyerId"))

\* Mutant: line 112 copied from line 111 without changing the columns.
CountryIdsCopied(d) == Unique(Ravel(d, "sellerId", "buyerId"))

\* Line 112
CountryIds(d) == Unique(Ravel(d, "sellerCountryId", "buyerCountryId"))

Range(seq) == {seq[i] : i \in 1..Len(seq)}

----------------------------------------------------------------------------
(* The caches and the lookup endpoints *)

EmptyMap == [k \in {} |-> ""]

\* Mutant: the store replaces the cache by a cache of one entry.
PutClears(map, k, v) == [x \in {k} |-> v]

Put(map, k, v) == [x \in DOMAIN map \cup {k} |-> IF x = k THEN v ELSE map[x]]

\* Identifiers that occur in the served items, and None.
Ids == {"A", "B", "X", None}

Keys == {"user", "country"} \X Ids

\* The name each endpoint returns for an identifier when the lookup succeeds.
UserName(id) == IF id = "A" THEN "alice" ELSE IF id = "B" THEN "bob" ELSE "xavier"
CountryName(id) == IF id = "X" THEN "Chile" ELSE "Peru"

\* How a lookup can end: "ok", or requests.get raises ("network"), r.json()
\* raises ("json"), or the path result.data.<name> is missing ("field").
Outcomes == {"ok", "network", "json", "field"}

\* pd.isna(id)
IsNa(id) == id = None

\* Mutant: the cache is not consulted.
IsNoOpNaOnly(id, cache) == IsNa(id)

\* Lines 50 and 60: the call returns at once.
IsNoOp(id, cache) == IsNa(id) \/ id \in DOMAIN cache

\* Mutant: except requests.RequestException instead of a bare except.
LookupResultNarrowExcept(fn, id, outcome) ==
    [raised |-> outcome \in {"json", "field"},
     value |-> IF outcome = "ok"
               THEN (IF fn = "user" THEN UserName(id) ELSE CountryName(id))
               ELSE id]

\* Lines 53-57 and 63-67: what the try/except makes of the outcome of the
\* request: whether an exception leaves the call and the value stored.
LookupResult(fn, id, outcome) ==
    [raised |-> FALSE,
     value |-> IF outcome = "ok"
               THEN (IF fn = "user" THEN UserName(id) ELSE CountryName(id))
               ELSE id]

\* Line 114: ThreadPoolExecutor(max_workers=10)
max_workers == 10

Task(fn, id, st) == [fn |-> fn, id |-> id, st |-> st, res |-> "none"]

CacheOf(fn) == IF fn = "user" THEN user_cache ELSE country_cache

Active(ts) == {j \in 1..Len(ts) : ts[j].st = "requesting"}

\* A thread (one of at most max_workers) runs a submitted call: the test of
\* line 50 / 60 and, unless it returns, the request of line 54 / 64 is issued.
TaskStart(i) ==
    /\ i \in 1..Len(tasks)
    /\ tasks[i].st = "pending"
    /\ Cardinality(Active(tasks)) < max_workers
    /\ LET t == tasks[i] IN
        IF IsNoOp(t.id, CacheOf(t.fn))
        THEN /\ tasks' = [tasks EXCEPT ![i].st = "done", ![i].res = "skip"]
             /\ UNCHANGED lookups
        ELSE /\ tasks' = [tasks EXCEPT ![i].st = "requesting"]
             /\ lookups' = [lookups EXCEPT ![<<t.fn, t.id>>] = @ + 1]
    /\ UNCHANGED <<pc, error, df, user_ids, country_ids, submitted, user_cache,
                   country_cache, writers>>
    /\ UNCHANGED fetchVars
    /\ UNCHANGED outVars

\* Lines 54-57 / 64-67: the request ends and the cache entry is written.
TaskFinish(i) ==
    /\ i \in 1..Len(tasks)
    /\ tasks[i].st = "requesting"
    /\ \E outcome \in Outcomes :
        LET t == tasks[i]
            r == LookupResult(t.fn, t.id, outcome)
        IN  IF r.raised
            THEN /\ tasks' = [tasks EXCEPT ![i].st = "done", ![i].res = "raised"]
                 /\ UNCHANGED <<user_cache, country_cache, writers>>
            ELSE /\ tasks' = [tasks EXCEPT ![i].st = "done", ![i].res = outcome]
                 /\ user_cache' = IF t.fn = "user"
                                  THEN Put(user_cache, t.id, r.value)
                                  ELSE user_cache
                 /\ country_cache' = IF t.fn = "country"
                                     THEN Put(country_cache, t.id, r.value)
                                     ELSE country_cache
                 /\ writers' = [writers EXCEPT ![<<t.fn, t.id>>] = @ \cup {i}]
    /\ UNCHANGED <<pc, error, df, user_ids, country_ids, submitted, lookups>>
    /\ UNCHANGED fetchVars
    /\ UNCHANGED outVars

----------------------------------------------------------------------------
(* __main__, lines 108-116 *)

\* Lines 108-112: the caches are created and the unique ids computed; a df
\* without the id columns (no row at all) raises KeyError.
ComputeUnique ==
    /\ pc = "unique"
    /\ user_cache' = EmptyMap
    /\ country_cache' = EmptyMap
    /\ IF {"sellerId", "buyerId"} \subseteq Columns(df)
          /\ {"sellerCountryId", "buyerCountryId"} \subseteq Columns(df)
       THEN /\ user_ids' = UserIds(df)
            /\ country_ids' = CountryIds(df)
            /\ pc' = "map_users"
            /\ UNCHANGED error
       ELSE /\ pc' = "crashed"
            /\ error' = "main"
            /\ UNCHANGED <<user_ids, country_ids>>
    /\ UNCHANGED <<df, submitted, tasks, lookups, writers>>
    /\ UNCHANGED fetchVars
    /\ UNCHANGED outVars

\* Line 115: executor.map submits one call per element of user_ids.
SubmitUser ==
    /\ pc = "map_users"
    /\ submitted < Len(user_ids)
    /\ tasks' = Append(tasks, Task("user", user_ids[submitted + 1], "pending"))
    /\ submitted' = submitted + 1
    /\ UNCHANGED <<pc, error, df, user_ids, country_ids>>
    /\ UNCHANGED fetchVars
    /\ UNCHANGED cacheVars
    /\ UNCHANGED outVars

\* Line 115 returns (its result iterator is dropped); line 116 begins.
MapUsersDone ==
    /\ pc = "map_users"
    /\ submitted = Len(user_ids)
    /\ pc' = "map_countries"
    /\ submitted' = 0
    /\ UNCHANGED <<error, df, user_ids, country_ids, tasks>>
    /\ UNCHANGED fetchVars
    /\ UNCHANGED cacheVars
    /\ UNCHANGED outVars

\* Line 116: executor.map submits one call per element of country_ids.
SubmitCountry ==
    /\ pc = "map_countries"
    /\ submitted < Len(country_ids)
    /\ tasks' = Append(tasks, Task("country", country_ids[submitted + 1], "pending"))
    /\ submitted' = submitted + 1
    /\ UNCHANGED <<pc, error, df, user_ids, country_ids>>
    /\ UNCHANGED fetchVars
    /\ UNCHANGED cacheVars
    /\ UNCHANGED outVars

\* Line 116 returns; the with block is left.
MapCountriesDone ==
    /\ pc = "map_countries"
    /\ submitted = Len(country_ids)
    /\ pc' = "with_exit"
    /\ UNCHANGED <<error, df, user_ids, country_ids, submitted, tasks>>
    /\ UNCHANGED fetchVars
    /\ UNCHANGED cacheVars
    /\ UNCHANGED outVars

\* Mutant: shutdown(wait=False).
ShutdownNoWait(ts) == TRUE

\* Line 114, leaving the with block: executor.shutdown(wait=True) returns once
\* every submitted call has ended.
ShutdownReady(ts) == \A j \in 1..Len(ts) : ts[j].st = "done"

ExecutorExit ==
    /\ pc = "with_exit"
    /\ ShutdownReady(tasks)
    /\ pc' = "clean"
    /\ UNCHANGED <<error, df, user_ids, country_ids, submitted, tasks>>
    /\ UNCHANGED fetchVars
    /\ UNCHANGED cacheVars
    /\ UNCHANGED outVars

----------------------------------------------------------------------------
(* clean_and_export *)

\* The strings float() and pd.to_numeric can parse, and their values.
NumericTexts == {"2"}
TextValue(s) == 2

\* float(x) of one cell, as astype(float) applies it; ty "raise" when it raises.
ToFloat(c) ==
    CASE c.ty = "int" -> Float(c.n, 1)
      [] c.ty = "null" -> NaN
      [] c.ty = "str" -> IF c.s \in NumericTexts THEN Float(TextValue(c.s), 1)
                         ELSE [c EXCEPT !.ty = "raise"]
      [] OTHER -> c

\* pd.to_numeric(errors='coerce') of one cell.
ToNumeric(c) ==
    CASE c.ty = "null" -> NaN
      [] c.ty = "str" -> IF c.s \in NumericTexts THEN IntCell(TextValue(c.s))
                         ELSE NaN
      [] OTHER -> c

\* Line 73 on the whole column: int64 when every cell is an integer, float64
\* as soon as one cell is missing.
ToNumericColumn(col) ==
    LET parsed == [i \in 1..Len(col) |-> ToNumeric(col[i])]
    IN  IF \A i \in 1..Len(col) : parsed[i].ty = "int"
        THEN parsed
        ELSE [i \in 1..Len(col) |-> ToFloat(parsed[i])]

\* Mutant: Series.replace(dict), which keeps a value that is no key.
MapCellKeepsId(id, cache) == IF id \in DOMAIN cache THEN cache[id] ELSE id

\* Lines 76-79: Series.map(dict); a value that is no key becomes NaN.
MapCell(id, cache) == IF id \in DOMAIN cache THEN cache[id] ELSE None

\* Line 82: money / quantity of one row, in float64 arithmetic.
Divide(m, q) ==
    IF m.ty = "nan" \/ q.ty = "nan" THEN NaN
    ELSE IF q.n = 0
         THEN (IF m.n = 0 THEN NaN ELSE IF m.n > 0 THEN PosInf ELSE NegInf)
         ELSE Float(m.n * q.d, m.d * q.n)

\* Line 83: strftime('%d/%m/%Y %H:%M') as <<day, month, year, hour, minute>>
FormatDate(t) == <<t[3], t[2], t[1], t[4], t[5]>>

\* Lines 86-95: the selected columns, in order, under their new names.
Selected == <<"sellerCountryId", "sellerId", "itemCode", "quantity",
              "moneyPerUnit", "buyerCountryId", "buyerId", "money", "updatedAt">>

\* Mutant: the rename of buyerId is forgotten.
RenameKeepsBuyerId(c) ==
    CASE c = "sellerCountryId" -> "sellerCountry"
      [] c = "sellerId" -> "sellBy"
      [] c = "buyerCountryId" -> "buyerCountry"
      [] c = "money" -> "totalMoney"
      [] OTHER -> c

Rename(c) ==
    CASE c = "sellerCountryId" -> "sellerCountry"
      [] c = "sellerId" -> "sellBy"
      [] c = "buyerCountryId" -> "buyerCountry"
      [] c = "buyerId" -> "buyerBy"
      [] c = "money" -> "totalMoney"
      [] OTHER -> c

OutputColumns == [k \in 1..Len(Selected) |-> Rename(Selected[k])]

Project(row) ==
    [c \in Range(OutputColumns) |->
        row[CHOOSE k \in Range(Selected) : Rename(k) = c]]

EmptyFrame == [columns |-> <<>>, rows |-> <<>>]

\* The text of one cell of a file: nothing ("empty"), a string ("text"), a
\* formatted date ("date"), an integer ("int"), inf or -inf, or a number with
\* four decimals ("fixed4", v being the number times 10000).
Text(kind, v, str, at) == [kind |-> kind, v |-> v, s |-> str, at |-> at]

\* n/d times 10000, rounded to the nearest integer, ties to even, as '%.4f'
\* rounds the value it prints.
Round4(n, d) ==
    LET num == Abs(n) * 10000
        q == num \div d
        r == num % d
        up == IF 2 * r > d THEN q + 1
              ELSE IF 2 * r < d THEN q
              ELSE IF q % 2 = 0 THEN q ELSE q + 1
    IN  IF n < 0 THEN -up ELSE up

NumericColumns == {"quantity", "moneyPerUnit", "totalMoney"}

\* Line 97: to_csv(float_format='%.4f') of one cell; NaN and None give an empty
\* field, a float its four decimals, an int64 its digits.
CsvCell(column, value) ==
    IF column \in NumericColumns
    THEN CASE value.ty = "float" -> Text("fixed4", Round4(value.n, value.d), "", <<>>)
           [] value.ty = "int" -> Text("int", value.n, "", <<>>)
           [] value.ty = "nan" -> Text("empty", 0, "", <<>>)
           [] OTHER -> Text(value.ty, 0, "", <<>>)
    ELSE IF column = "updatedAt" THEN Text("date", 0, "", value)
    ELSE IF value = None THEN Text("empty", 0, "", <<>>)
    ELSE Text("text", 0, value, <<>>)

\* Line 97: the file has the header and one line per row, no index column.
ToCsv(frame) ==
    [columns |-> frame.columns,
     rows |-> [i \in 1..Len(frame.rows) |->
                [c \in DOMAIN frame.rows[i] |-> CsvCell(c, frame.rows[i][c])]]]

\* Line 98: to_excel of one cell; NaN and None give an empty cell, inf the
\* text of inf_rep, any other value is stored as it is.
XlsxCell(column, value) ==
    IF column \in NumericColumns
    THEN CASE value.ty = "nan" -> Text("empty", 0, "", <<>>)
           [] value.ty \in {"inf", "-inf"} -> Text(value.ty, 0, "", <<>>)
           [] OTHER -> value
    ELSE IF column = "updatedAt" THEN Text("date", 0, "", value)
    ELSE IF value = None THEN Text("empty", 0, "", <<>>)
    ELSE Text("text", 0, value, <<>>)

\* Line 98
ToExcel(frame) ==
    [columns |-> frame.columns,
     rows |-> [i \in 1..Len(frame.rows) |->
                [c \in DOMAIN frame.rows[i] |-> XlsxCell(c, frame.rows[i][c])]]]

\* Lines 72-73: the numeric columns are coerced in place.
Coerce ==
    /\ pc = "clean"
    /\ LET money == [i \in 1..Len(df) |-> ToFloat(df[i].money)]
           quantity == ToNumericColumn(Column(df, "quantity"))
       IN  IF \E i \in 1..Len(df) : money[i].ty = "raise"
           THEN /\ pc' = "crashed"
                /\ error' = "clean_and_export"
                /\ UNCHANGED df
           ELSE /\ df' = [i \in 1..Len(df) |->
                            [df[i] EXCEPT !.money = money[i],
                                          !.quantity = quantity[i]]]
                /\ pc' = "map"
                /\ UNCHANGED error
    /\ UNCHANGED <<user_ids, country_ids, submitted, tasks>>
    /\ UNCHANGED fetchVars
    /\ UNCHANGED cacheVars
    /\ UNCHANGED outVars

\* Lines 76-79: the id columns are replaced through the caches.
MapIds ==
    /\ pc = "map"
    /\ df' = [i \in 1..Len(df) |->
                [df[i] EXCEPT
                    !.sellerId = MapCell(@, user_cache),
                    !.buyerId = MapCell(@, user_cache),
                    !.sellerCountryId = MapCell(@, country_cache),
                    !.buyerCountryId = MapCell(@, country_cache)]]
    /\ pc' = "derive"
    /\ UNCHANGED <<error, user_ids, country_ids, submitted, tasks>>
    /\ UNCHANGED fetchVars
    /\ UNCHANGED cacheVars
    /\ UNCHANGED outVars

\* df with the column moneyPerUnit added and updatedAt reformatted.
Derived(d) ==
    [i \in 1..Len(d) |->
        [c \in DOMAIN d[i] \cup {"moneyPerUnit"} |->
            IF c = "moneyPerUnit" THEN Divide(d[i].money, d[i].quantity)
            ELSE IF c = "updatedAt" THEN FormatDate(d[i].updatedAt)
            ELSE d[i][c]]]

\* Lines 82-98: derived column, date format, projection and the two files.
DeriveExport ==
    /\ pc = "derive"
    /\ df' = Derived(df)
    /\ final_df' = [columns |-> OutputColumns,
                    rows |-> [i \in 1..Len(df') |-> Project(df'[i])]]
    /\ csv_file' = ToCsv(final_df')
    /\ xlsx_file' = ToExcel(final_df')
    /\ pc' = "done"
    /\ UNCHANGED <<error, user_ids, country_ids, submitted, tasks>>
    /\ UNCHANGED fetchVars
    /\ UNCHANGED cacheVars

----------------------------------------------------------------------------
(* test2.py: the two files are read back and written again *)

\* repr of the float read from a field with four decimals: the shortest text
\* that gives the float back, with at least one decimal ("fixedK": v is the
\* number times 10^K).
FloatRepr(v) ==
    IF v % 1000 = 0 THEN Text("fixed1", v \div 1000, "", <<>>)
    ELSE IF v % 100 = 0 THEN Text("fixed2", v \div 100, "", <<>>)
    ELSE IF v % 10 = 0 THEN Text("fixed3", v \div 10, "", <<>>)
    ELSE Text("fixed4", v, "", <<>>)

\* The strings read_csv takes for a missing value (among its defaults).
NaTexts == {"", "None", "NaN", "nan", "NA", "N/A", "NULL", "null", "n/a", "<NA>"}

\* The kinds of field that make read_csv infer float64 for a column of numbers.
FloatKinds == {"empty", "fixed4", "inf", "-inf"}

\* test2.py lines 5-6: one field of the csv after read_csv and to_csv without
\* float_format; others are the fields of the same column.  A column of
\* integers only stays int64; any other column of numbers is float64 and
\* written with repr; text is kept unless read_csv takes it for missing.
RewriteCsvCell(cell, others) ==
    CASE cell.kind = "fixed4" -> FloatRepr(cell.v)
      [] cell.kind = "int" ->
            IF \E o \in others : o.kind \in FloatKinds
            THEN Text("fixed1", cell.v * 10, "", <<>>)
            ELSE cell
      [] cell.kind = "text" ->
            IF cell.s \in NaTexts THEN Text("empty", 0, "", <<>>) ELSE cell
      [] OTHER -> cell

\* test2.py lines 5-6 on the whole file: same header, same number of lines.
RewriteCsv(file) ==
    [columns |-> file.columns,
     rows |-> [i \in 1..Len(file.rows) |->
                [c \in DOMAIN file.rows[i] |->
                    RewriteCsvCell(file.rows[i][c],
                                   {file.rows[j][c] : j \in 1..Len(file.rows)})]]]

\* test2.py lines 11-12: read_excel and to_excel keep the typed cells.
RewriteExcel(file) ==
    [columns |-> file.columns,
     rows |-> [i \in 1..Len(file.rows) |->
                [c \in DOMAIN file.rows[i] |-> file.rows[i][c]]]]

\* test2.py, run after the export has written the two files.
Cleanup ==
    /\ pc = "done"
    /\ csv_file' = RewriteCsv(csv_file)
    /\ xlsx_file' = RewriteExcel(xlsx_file)
    /\ pc' = "cleaned"
    /\ UNCHANGED <<error, df, user_ids, country_ids, submitted, tasks, final_df>>
    /\ UNCHANGED fetchVars
    /\ UNCHANGED cacheVars

----------------------------------------------------------------------------
(* The pipeline *)

Init ==
    /\ pc = "fetch"
    /\ error = "none"
    /\ cursor = None
    /\ all_items = <<>>
    /\ requests = <<>>
    /\ pages = <<>>
    /\ df = <<>>
    /\ user_cache = EmptyMap
    /\ country_cache = EmptyMap
    /\ user_ids = <<>>
    /\ country_ids = <<>>
    /\ submitted = 0
    /\ tasks = <<>>
    /\ lookups = [k \in Keys |-> 0]
    /\ writers = [k \in Keys |-> {}]
    /\ final_df = EmptyFrame
    /\ csv_file = EmptyFrame
    /\ xlsx_file = EmptyFrame

Worker == \E i \in 1..Len(tasks) : TaskStart(i) \/ TaskFinish(i)

Next ==
    \/ SendRequest
    \/ ReceiveResponse
    \/ FetchReturn
    \/ ComputeUnique
    \/ SubmitUser
    \/ MapUsersDone
    \/ SubmitCountry
    \/ MapCountriesDone
    \/ Worker
    \/ ExecutorExit
    \/ Coerce
    \/ MapIds
    \/ DeriveExport
    \/ Cleanup

Spec == Init /\ [][Next]_vars

----------------------------------------------------------------------------
(* clean_and_export and test2.py applied to any table and any caches *)

\* Tables fetch_transactions can return.
CleanFrames == {<<Item1, Item2>>, <<Item3, Item4, Item5, Item6>>,
                <<Item1, Item2, Item3, Item4, Item5, Item6>>}

\* Caches with any of the ids resolved, to a name or to the id itself.
UserCaches == UNION {[S -> {"alice", "bob", "A", "B"}] : S \in SUBSET {"A", "B"}}
CountryCaches == UNION {[S -> {"Chile", "X"}] : S \in SUBSET {"X"}}

InitClean ==
    /\ pc = "clean"
    /\ error = "none"
    /\ cursor = None
    /\ all_items \in CleanFrames
    /\ requests = <<>>
    /\ pages = <<>>
    /\ df = all_items
    /\ user_cache \in UserCaches
    /\ country_cache \in CountryCaches
    /\ user_ids = <<>>
    /\ country_ids = <<>>
    /\ submitted = 0
    /\ tasks = <<>>
    /\ lookups = [k \in Keys |-> 0]
    /\ writers = [k \in Keys |-> {}]
    /\ final_df = EmptyFrame
    /\ csv_file = EmptyFrame
    /\ xlsx_file = EmptyFrame

NextClean == Coerce \/ MapIds \/ DeriveExport \/ Cleanup

SpecClean == InitClean /\ [][NextClean]_vars

----------------------------------------------------------------------------
(* fetch_transactions alone, lines 19-45 and the binding of line 105 *)

NextFetch == SendRequest \/ ReceiveResponse \/ FetchReturn

\* The loop of lines 26-42 keeps running: a request that was sent is answered
\* (the server does return a page) and the statement after it is executed.
SpecFetch == Init /\ [][NextFetch]_vars /\ WF_vars(NextFetch)

----------------------------------------------------------------------------
(* fetch_username and fetch_country_name called one after the other *)

\* A caller makes the next call, to either function and with any argument,
\* once the previous call has returned.
DriverCall ==
    /\ pc = "driver"
    /\ Len(tasks) < MaxCalls
    /\ \A j \in 1..Len(tasks) : tasks[j].st = "done"
    /\ \E fn \in {"user", "country"}, id \in Ids :
        tasks' = Append(tasks, Task(fn, id, "pending"))
    /\ UNCHANGED <<pc, error, df, user_ids, country_ids, submitted>>
    /\ UNCHANGED fetchVars
    /\ UNCHANGED cacheVars
    /\ UNCHANGED outVars

InitResolve ==
    /\ pc = "driver"
    /\ error = "none"
    /\ cursor = None
    /\ all_items = <<>>
    /\ requests = <<>>
    /\ pages = <<>>
    /\ df = <<>>
    /\ user_cache = EmptyMap
    /\ country_cache = EmptyMap
    /\ user_ids = <<>>
    /\ country_ids = <<>>
    /\ submitted = 0
    /\ tasks = <<>>
    /\ lookups = [k \in Keys |-> 0]
    /\ writers = [k \in Keys |-> {}]
    /\ final_df = EmptyFrame
    /\ csv_file = EmptyFrame
    /\ xlsx_file = EmptyFrame

NextResolve == DriverCall \/ Worker

SpecResolve == InitResolve /\ [][NextResolve]_vars

----------------------------------------------------------------------------
(* Properties *)

RECURSIVE ItemCount(_, _)
\* The number of items of the first k pages served.
ItemCount(ps, k) == IF k = 0 THEN 0 ELSE ItemCount(ps, k - 1) + Len(ps[k].items)

RECURSIVE ItemsOf(_, _)
\* The items of the first k pages served, in page order.
ItemsOf(ps, k) == IF k = 0 THEN <<>> ELSE ItemsOf(ps, k - 1) \o ps[k].items

\* fetch_transactions has returned its collection.
Returned == pc \notin {"fetch", "await", "return", "driver"}
            /\ error # "fetch_transactions"

\* The page has a status other than 200, or a null, absent or empty next cursor.
EndsPagination(r) == r.status # 200 \/ r.nextCursor \in {None, ""}

\* The index of the first page that ends the pagination.
IsFirstEnd(k) ==
    /\ k \in 1..Len(pages)
    /\ EndsPagination(pages[k])
    /\ \A j \in 1..(k - 1) : ~EndsPagination(pages[j])

\* C1 as stated: the returned collection has as many items as the pages before
\* the first failing or cursor-less page carry together, that page excluded.
C1_CountExcludesLastPage ==
    Returned => \E k \in 1..Len(pages) :
                    IsFirstEnd(k) /\ Len(df) = ItemCount(pages, k - 1)

\* C1 amended: the returned collection has as many items as the pages before
\* the first failing or cursor-less page carry together, plus the items of
\* that page when it is a status-200 page without a next cursor.
C1_CountUpToLastPage ==
    Returned => \E k \in 1..Len(pages) :
                    /\ IsFirstEnd(k)
                    /\ Len(df) = ItemCount(pages, k - 1)
                                 + (IF pages[k].status = 200
                                    THEN Len(pages[k].items) ELSE 0)

\* Two pages with items were served, the second one the last page.
C1_Witness ==
    /\ Returned
    /\ Len(pages) = 2
    /\ pages[2].status = 200
    /\ Len(pages[1].items) > 0
    /\ Len(pages[2].items) > 0
    /\ Len(df) = Len(pages[1].items) + Len(pages[2].items)

\* C2: a page with a non-2xx status is the last page requested; the loop is
\* left with the items of the earlier pages, which are what is returned, and no
\* exception leaves fetch_transactions.
C2_FailingStatusStops ==
    \A k \in 1..Len(pages) :
        pages[k].status \notin 200..299 =>
            /\ k = Len(pages)
            /\ Len(requests) = k
            /\ pc \notin {"fetch", "await"}
            /\ all_items = ItemsOf(pages, k - 1)
            /\ error # "fetch_transactions"
            /\ pc = "unique" => df = all_items

\* The second page failed and the items of the first page were returned.
C2_Witness ==
    /\ pc = "unique"
    /\ Len(pages) = 2
    /\ pages[2].status = 500
    /\ Len(df) > 0
    /\ df = pages[1].items

\* The with block of line 114 has been left.
FanOutsFinished == pc \in {"clean", "map", "derive", "done", "cleaned"}
                   \/ (pc = "crashed" /\ error = "clean_and_export")

\* C3: once the fan-outs have finished, every non-null id of the seller and
\* buyer columns is a key of user_cache and every non-null id of the country
\* columns is a key of country_cache.
C3_EverySubmittedKeyCached ==
    FanOutsFinished =>
        \A i \in 1..Len(all_items) :
            /\ \A c \in {"sellerId", "buyerId"} :
                all_items[i][c] # None => all_items[i][c] \in DOMAIN user_cache
            /\ \A c \in {"sellerCountryId", "buyerCountryId"} :
                all_items[i][c] # None => all_items[i][c] \in DOMAIN country_cache

\* The fan-outs have finished with a lookup that succeeded and one that failed.
C3_Witness ==
    /\ pc = "clean"
    /\ \E i, j \in 1..Len(tasks) : tasks[i].res = "ok" /\ tasks[j].res = "network"
    /\ "X" \in DOMAIN country_cache
    /\ {"A", "B"} \subseteq DOMAIN user_cache

\* C4: in a sequence of calls, no request is issued for an id that has a cache
\* entry, no cache entry is removed or changed, and no entry is written twice.
C4_ResolutionIdempotent ==
    [][/\ \A k \in DOMAIN user_cache :
            k \in DOMAIN user_cache' /\ user_cache'[k] = user_cache[k]
       /\ \A k \in DOMAIN country_cache :
            k \in DOMAIN country_cache' /\ country_cache'[k] = country_cache[k]
       /\ \A k \in DOMAIN user_cache : lookups'[<<"user", k>>] = lookups[<<"user", k>>]
       /\ \A k \in DOMAIN country_cache :
            lookups'[<<"country", k>>] = lookups[<<"country", k>>]
       /\ \A key \in Keys : Cardinality(writers'[key]) <= 1]_vars

\* An id was resolved and then passed to the same function again.
C4_Witness ==
    \E i, j \in 1..Len(tasks) :
        /\ i < j
        /\ tasks[i].fn = tasks[j].fn
        /\ tasks[i].id = tasks[j].id
        /\ tasks[i].res = "json"
        /\ tasks[j].res = "skip"
        /\ lookups[<<tasks[i].fn, tasks[i].id>>] = 1

\* C5: when clean_and_export reads the caches, and ever after, every call
\* given to the pool has ended.
C5_JoinAfterResolution ==
    pc \in {"map", "derive", "done", "cleaned"} =>
        \A i \in 1..Len(tasks) : tasks[i].st = "done"

\* clean_and_export is about to read the caches that five calls have filled.
C5_Witness ==
    /\ pc = "map"
    /\ Len(tasks) = 5
    /\ \E i \in 1..Len(tasks) : tasks[i].fn = "country" /\ tasks[i].res = "ok"

\* C6: no two calls that are in flight together have the same cache and the
\* same id, and no cache entry is written by two calls.
C6_NoSharedKey ==
    /\ \A i, j \in 1..Len(tasks) :
        (i # j /\ tasks[i].st = "requesting" /\ tasks[j].st = "requesting")
            => <<tasks[i].fn, tasks[i].id>> # <<tasks[j].fn, tasks[j].id>>
    /\ \A key \in Keys : Cardinality(writers[key]) <= 1

\* Two user lookups are in flight together, for ids that several rows share.
C6_Witness ==
    /\ \E i, j \in 1..Len(tasks) :
        /\ tasks[i].fn = "user" /\ tasks[j].fn = "user"
        /\ tasks[i].id = "A" /\ tasks[j].id = "B"
        /\ tasks[i].st = "requesting" /\ tasks[j].st = "requesting"
    /\ Len(df) = 6

\* C7: a call whose lookup failed has stored the id under itself, and no call
\* ends with an exception.
C7_FailureStoresId ==
    \A i \in 1..Len(tasks) :
        /\ tasks[i].res # "raised"
        /\ tasks[i].res \in {"network", "json", "field"} =>
            /\ tasks[i].st = "done"
            /\ tasks[i].id \in DOMAIN CacheOf(tasks[i].fn)
            /\ CacheOf(tasks[i].fn)[tasks[i].id] = tasks[i].id

\* Three lookups failed, one in each way, and the pipeline went on.
C7_Witness ==
    /\ pc = "done"
    /\ \E i, j, k \in 1..Len(tasks) :
        /\ tasks[i].res = "network"
        /\ tasks[j].res = "json"
        /\ tasks[k].res = "field"
    /\ user_cache["A"] = "A"

\* C8: the first request has no cursor, each later one the next cursor of the
\* response before it, at most one request is outstanding, and all_items holds
\* the items of the pages in page order.
C8_CursorOrder ==
    /\ Len(requests) >= 1 => requests[1] = None
    /\ \A k \in 2..Len(requests) :
        requests[k] = pages[k - 1].nextCursor /\ requests[k] \notin {None, ""}
    /\ Len(requests) - Len(pages) \in {0, 1}
    /\ all_items = ItemsOf(pages, Len(pages))

\* The second request carried the cursor of the first response and both pages
\* had items.
C8_Witness ==
    /\ Len(requests) = 2
    /\ requests[2] = "c2"
    /\ Len(pages) = 2
    /\ all_items = pages[1].items \o pages[2].items
    /\ Len(pages[1].items) = 2
    /\ Len(pages[2].items) = 4

\* C9 as stated: after a failing status on any page the run does not end with
\* an error.
C9_FetchFailureNonFatal ==
    (\E k \in 1..Len(pages) : pages[k].status # 200) => pc # "crashed"

\* A quantity of the served item that is zero, missing or not a number.
NoQuantity(c) ==
    \/ c.ty = "int" /\ c.n = 0
    \/ c.ty = "null"
    \/ c.ty = "str" /\ c.s \notin NumericTexts

\* C10 as stated: in every exported row moneyPerUnit is totalMoney / quantity
\* when the quantity is positive and missing when the quantity is zero, missing
\* or unparsable, and clean_and_export raises no error.
C10_MoneyPerUnit ==
    /\ error # "clean_and_export"
    /\ pc \in {"done", "cleaned"} =>
        \A i \in 1..Len(final_df.rows) :
            LET row == final_df.rows[i]
                q == row.quantity
                m == row.totalMoney
                u == row.moneyPerUnit
            IN  /\ (q.ty \in {"int", "float"} /\ q.n > 0) =>
                    u.ty = "float" /\ u.n * q.n * m.d = m.n * q.d * u.d
                /\ NoQuantity(all_items[i].quantity) => u.ty = "nan"

\* What Series.map(cache) is to give for an id: the cached value, and the
\* missing marker for an id without entry.
Looked(id, cache) == IF id \in DOMAIN cache THEN cache[id] ELSE None

\* C11: in the exported table each seller, buyer and country cell is the value
\* cached for the id of the fetched row, and missing when the id has no entry.
C11_IdsReplacedThroughCache ==
    pc \in {"done", "cleaned"} =>
        /\ Len(final_df.rows) = Len(all_items)
        /\ \A i \in 1..Len(final_df.rows) :
            LET row == final_df.rows[i]
                raw == all_items[i]
            IN  /\ row.sellBy = Looked(raw.sellerId, user_cache)
                /\ row.buyerBy = Looked(raw.buyerId, user_cache)
                /\ row.sellerCountry = Looked(raw.sellerCountryId, country_cache)
                /\ row.buyerCountry = Looked(raw.buyerCountryId, country_cache)
                /\ \A c \in {"sellerId", "buyerId"} :
                    raw[c] \notin DOMAIN user_cache => df[i][c] = None
                /\ \A c \in {"sellerCountryId", "buyerCountryId"} :
                    raw[c] \notin DOMAIN country_cache => df[i][c] = None

\* A table was exported whose seller "B" has no entry in user_cache while its
\* buyer "A" has one, and whose country "X" has no entry in country_cache.
C11_Witness ==
    /\ pc = "done"
    /\ all_items = <<Item1, Item2>>
    /\ DOMAIN user_cache = {"A"}
    /\ user_cache["A"] = "alice"
    /\ DOMAIN country_cache = {}
    /\ final_df.rows[2].sellBy = None
    /\ final_df.rows[2].buyerBy = "alice"
    /\ final_df.rows[1].sellerCountry = None

\* The transactions in the order the API served them.
Arrived == ItemsOf(pages, Len(pages))

\* C12: the exported table and the csv file have one row per transaction
\* served by the API, in the order of arrival: row i carries the item code,
\* the date and the money of the i-th transaction.
C12_OneRowPerTransactionInOrder ==
    pc \in {"done", "cleaned"} =>
        /\ Len(final_df.rows) = Len(Arrived)
        /\ Len(csv_file.rows) = Len(Arrived)
        /\ Len(xlsx_file.rows) = Len(Arrived)
        /\ \A i \in 1..Len(final_df.rows) :
            /\ final_df.rows[i].itemCode = Arrived[i].itemCode
            /\ final_df.rows[i].updatedAt = FormatDate(Arrived[i].updatedAt)
            /\ final_df.rows[i].totalMoney.n = Arrived[i].money.n
            /\ csv_file.rows[i].itemCode.s = Arrived[i].itemCode

\* Two pages were exported, with rows that repeat (the same buyer and item)
\* and rows without a price.
C12_Witness ==
    /\ pc = "done"
    /\ Len(pages) = 2
    /\ pages[1].items = <<Item3, Item4, Item5, Item6>>
    /\ pages[2].items = <<Item1, Item2>>
    /\ Len(final_df.rows) = 6
    /\ final_df.rows[1].moneyPerUnit.ty = "nan"
    /\ final_df.rows[5].itemCode = "bread"

\* C13 as stated: from the return of fetch_transactions on, the collection
\* it returned keeps every cell.
C13_CollectionReadOnly ==
    Returned => df = all_items

\* The columns clean_and_export assigns (lines 72-83).
AssignedColumns == {"money", "quantity", "sellerId", "buyerId", "sellerCountryId",
                    "buyerCountryId", "moneyPerUnit", "updatedAt"}

\* The part of C13 that holds: the collection keeps every cell until
\* clean_and_export is called; clean_and_export keeps the rows, their order and
\* every cell of the columns it does not assign.
C13_CollectionKeptUntilClean ==
    Returned =>
        /\ pc \in {"unique", "map_users", "map_countries", "with_exit", "clean"}
            => df = all_items
        /\ (pc = "crashed" /\ error = "main") => df = all_items
        /\ Len(df) = Len(all_items)
        /\ \A i \in 1..Len(df) :
            \A c \in DOMAIN all_items[i] \ AssignedColumns :
                c \in DOMAIN df[i] /\ df[i][c] = all_items[i][c]

\* The nine output columns, in order.
NineColumns == <<"sellerCountry", "sellBy", "itemCode", "quantity", "moneyPerUnit",
                 "buyerCountry", "buyerBy", "totalMoney", "updatedAt">>

\* C14: the exported table and both files have exactly the nine columns, in
\* that order, and every row has exactly these cells.
C14_NineColumns ==
    pc \in {"done", "cleaned"} =>
        /\ final_df.columns = NineColumns
        /\ csv_file.columns = NineColumns
        /\ xlsx_file.columns = NineColumns
        /\ \A i \in 1..Len(final_df.rows) :
            /\ DOMAIN final_df.rows[i] = Range(NineColumns)
            /\ DOMAIN csv_file.rows[i] = Range(NineColumns)

\* A table whose fetched rows carry a column that is not selected was exported.
C14_Witness ==
    /\ pc = "done"
    /\ Len(final_df.rows) = 4
    /\ \A i \in 1..Len(all_items) : "transactionType" \in DOMAIN all_items[i]
    /\ \A i \in 1..Len(df) : "transactionType" \in DOMAIN df[i]
    /\ Len(final_df.columns) = 9

\* C15 as stated: the cleanup leaves the data rows of the CSV file as the
\* export wrote them, the 4-decimal rendering of the numbers included.
C15_CleanupKeepsRows ==
    pc = "cleaned" => csv_file.rows = ToCsv(final_df).rows

\* The last page served has a failing status, or is a decoded status-200 page
\* without a next cursor.
TerminalServed ==
    /\ Len(pages) > 0
    /\ \/ pages[Len(pages)].status # 200
       \/ /\ pages[Len(pages)].decodable
          /\ pages[Len(pages)].nextCursor \in {None, ""}

\* Page k is a decoded status-200 page without a next cursor.
CursorLessSuccess(k) ==
    /\ pages[k].status = 200
    /\ pages[k].decodable
    /\ pages[k].nextCursor \in {None, ""}

\* C16: once the server has returned a failing status or a cursor-less
\* success, fetch_transactions eventually returns; a cursor-less success is the
\* last page requested, its items are appended to the collection and the loop
\* is left without another request.
C16_FetchTerminates ==
    /\ TerminalServed ~> (pc = "unique")
    /\ [](\A k \in 1..Len(pages) :
            CursorLessSuccess(k) =>
                /\ k = Len(pages)
                /\ Len(requests) = k
                /\ pc \in {"return", "unique"}
                /\ all_items = ItemsOf(pages, k))

\* fetch_transactions has returned after a second page that carried items and
\* an empty next cursor.
C16_Witness ==
    /\ pc = "unique"
    /\ Len(pages) = 2
    /\ Len(requests) = 2
    /\ CursorLessSuccess(2)
    /\ pages[2].nextCursor = ""
    /\ Len(pages[2].items) > 0
    /\ df = pages[1].items \o pages[2].items

\* C17: when a status-200 page does not decode, no collection is returned, not
\* even the items of the earlier pages, and the run has ended with the error of
\* fetch_transactions before any name lookup and any export.
C17_DecodeErrorFatal ==
    \A k \in 1..Len(pages) :
        (pages[k].status = 200 /\ ~pages[k].decodable) =>
            /\ k = Len(pages)
            /\ pc = "crashed"
            /\ error = "fetch_transactions"
            /\ df = <<>>
            /\ tasks = <<>>
            /\ \A key \in Keys : lookups[key] = 0
            /\ user_cache = EmptyMap
            /\ country_cache = EmptyMap
            /\ final_df = EmptyFrame
            /\ csv_file = EmptyFrame
            /\ xlsx_file = EmptyFrame

\* The first page was decoded and its items accumulated, the second page did
\* not decode.
C17_Witness ==
    /\ Len(pages) = 2
    /\ pages[1].status = 200
    /\ Len(all_items) > 0
    /\ pages[2].status = 200
    /\ ~pages[2].decodable
    /\ pc = "crashed"

\* The cache new is the cache old, except possibly for the entry of k.
OnlyKeyChanged(old, new, k) ==
    /\ DOMAIN new \subseteq DOMAIN old \cup {k}
    /\ \A x \in DOMAIN old : x \in DOMAIN new /\ (x # k => new[x] = old[x])

\* The calls that take a step: they start, or their request ends.
Stepping == {i \in 1..Len(tasks) : tasks'[i].st # tasks[i].st}

\* C18: a step of a resolution call changes at most the entry of its own
\* identifier in its own cache and nothing in the other cache; a call with a
\* null or already cached identifier returns at once, without a request and
\* with both caches unchanged; nothing else writes the caches.
C18_CallTouchesOwnEntry ==
    [][/\ Len(tasks') >= Len(tasks)
       /\ (Stepping = {} => user_cache' = user_cache
                            /\ country_cache' = country_cache)
       /\ \A i \in Stepping :
            LET t == tasks[i] IN
            /\ Stepping = {i}
            /\ IF t.fn = "user"
               THEN /\ country_cache' = country_cache
                    /\ OnlyKeyChanged(user_cache, user_cache', t.id)
               ELSE /\ user_cache' = user_cache
                    /\ OnlyKeyChanged(country_cache, country_cache', t.id)
            /\ (t.st = "pending" /\ (t.id = None \/ t.id \in DOMAIN CacheOf(t.fn))) =>
                    /\ tasks'[i].st = "done"
                    /\ lookups' = lookups
                    /\ user_cache' = user_cache
                    /\ country_cache' = country_cache]_vars

\* Both caches hold an entry, and calls with a cached identifier and with a
\* null identifier have returned without a request.
C18_Witness ==
    /\ pc = "driver"
    /\ Len(tasks) = 3
    /\ tasks[1].res \in Outcomes
    /\ tasks[2].id = tasks[1].id /\ tasks[2].fn = tasks[1].fn
    /\ tasks[2].res = "skip"
    /\ tasks[3].id = None
    /\ tasks[3].res = "skip"
    /\ lookups[<<tasks[1].fn, tasks[1].id>>] = 1

====
